---- MODULE Spec2Model ----
(***************************************************************************)
(* Capture routing pipeline of notion-capture (backend/app).               *)
(*                                                                         *)
(* One capture request at a time is followed from the HTTP endpoint        *)
(* (process_text_endpoint) or from a direct call of                        *)
(* process_capture_result through classification, routing, the calendar    *)
(* branch or the Notion branch (list, select, schema, map, identify,       *)
(* enrich, create, audit) and the final status snapshot.  Every external   *)
(* call is a point where the environment chooses an outcome.               *)
(*                                                                         *)
(* Python values are modelled as tagged records: Null is None, S(chars) a  *)
(* str (a sequence of one-character strings), N(n) an int, B(b) a bool,    *)
(* L(seq) a list.  Dicts whose key set varies (result, summary, analysis)  *)
(* are functions whose DOMAIN is the set of keys present.                  *)
(*                                                                         *)
(* Prompt templates (prompts/*.txt) are static files read by               *)
(* render_prompt; rendering is taken to succeed and has no effect on the   *)
(* state, so it does not appear as a step.                                 *)
(***************************************************************************)
EXTENDS Integers, Sequences, FiniteSets, TLC

\* ------------------------------------------------------------------ bounds
\* longest candidate list returned by fetch_databases
MaxCandidates == 2
\* longest "mappings" list in a Mapper reply
MaxMappings == 2
MaxIssued == 2
MaxExchanges == 2

\* --------------------------------------------------------- program constants
\* confidence is kept in hundredths: 0.5 is 50, 0.3 is 30
ConfidenceThreshold == 50
FallbackConfidence == 30
TitleTextLimit == 2000
OptionLimit == 100
MultiSelectLimit == 10
DateTimeLen == 19
DateOnlyLen == 10
FilledValueLimit == 100

\* ------------------------------------------------------------ Python values
Null == [t |-> "null"]
S(chars) == [t |-> "str", s |-> chars]
N(n) == [t |-> "num", n |-> n]
B(b) == [t |-> "bool", b |-> b]
L(items) == [t |-> "list", l |-> items]

NoneKey == "<None>"

Min(a, b) == IF a < b THEN a ELSE b

\* s[:n]
Prefix(s, n) == SubSeq(s, 1, Min(Len(s), n))

UpperLetters ==
    <<"A","B","C","D","E","F","G","H","I","J","K","L","M",
      "N","O","P","Q","R","S","T","U","V","W","X","Y","Z">>

LowerLetters ==
    <<"a","b","c","d","e","f","g","h","i","j","k","l","m",
      "n","o","p","q","r","s","t","u","v","w","x","y","z">>

\* str.lower() on one character
LowerChar(c) ==
    IF \E i \in 1..26 : UpperLetters[i] = c
    THEN LowerLetters[CHOOSE i \in 1..26 : UpperLetters[i] = c]
    ELSE c

\* str.lower()
Lower(s) == [i \in 1..Len(s) |-> LowerChar(s[i])]

\* sub in s
Contains(s, sub) ==
    \E i \in 1..(Len(s) - Len(sub) + 1) : SubSeq(s, i, i + Len(sub) - 1) = sub

\* s.endswith(suffix) for a one-character suffix
EndsWithChar(s, c) == Len(s) > 0 /\ s[Len(s)] = c

RECURSIVE LStrip(_)
LStrip(s) == IF Len(s) > 0 /\ s[1] = " " THEN LStrip(Tail(s)) ELSE s

RECURSIVE RStrip(_)
RStrip(s) ==
    IF Len(s) > 0 /\ s[Len(s)] = " " THEN RStrip(SubSeq(s, 1, Len(s) - 1)) ELSE s

\* str.strip()
Strip(s) == RStrip(LStrip(s))

Digits == <<"0","1","2","3","4","5","6","7","8","9">>

IsDigit(c) == \E i \in 1..10 : Digits[i] = c

DigitValue(c) == (CHOOSE i \in 1..10 : Digits[i] = c) - 1

RECURSIVE DigitsValue(_)
DigitsValue(s) ==
    IF Len(s) = 0 THEN 0
    ELSE 10 * DigitsValue(SubSeq(s, 1, Len(s) - 1)) + DigitValue(s[Len(s)])

RECURSIVE NatToChars(_)
NatToChars(n) ==
    IF n < 10 THEN <<Digits[n + 1]>>
    ELSE NatToChars(n \div 10) \o <<Digits[(n % 10) + 1]>>

RECURSIVE JoinRepr(_)
\* the inside of repr(list) for a list of str: 'a', 'b'
JoinRepr(items) ==
    IF Len(items) = 0 THEN <<>>
    ELSE LET head == IF items[1].t = "str" THEN <<"'">> \o items[1].s \o <<"'">>
                     ELSE IF items[1].t = "num" THEN NatToChars(items[1].n)
                     ELSE IF items[1].t = "bool"
                          THEN (IF items[1].b THEN <<"T","r","u","e">>
                                ELSE <<"F","a","l","s","e">>)
                     ELSE <<"N","o","n","e">>
         IN  IF Len(items) = 1 THEN head
             ELSE head \o <<",", " ">> \o JoinRepr(Tail(items))

\* str(value)
Str(v) ==
    CASE v.t = "str" -> v.s
      [] v.t = "num" -> NatToChars(v.n)
      [] v.t = "bool" -> IF v.b THEN <<"T","r","u","e">> ELSE <<"F","a","l","s","e">>
      [] v.t = "list" -> <<"[">> \o JoinRepr(v.l) \o <<"]">>
      [] OTHER -> <<"N","o","n","e">>

\* float(value): [ok, n]; strings of digits (surrounding blanks allowed) parse,
\* every other string of the model's alphabet raises ValueError, a list TypeError
Float(v) ==
    CASE v.t = "num" -> [ok |-> TRUE, n |-> v.n]
      [] v.t = "bool" -> [ok |-> TRUE, n |-> IF v.b THEN 1 ELSE 0]
      [] v.t = "str" ->
            LET core == Strip(v.s)
            IN  IF Len(core) > 0 /\ \A i \in 1..Len(core) : IsDigit(core[i])
                THEN [ok |-> TRUE, n |-> DigitsValue(core)]
                ELSE [ok |-> FALSE, n |-> 0]
      [] OTHER -> [ok |-> FALSE, n |-> 0]

\* dict.get(key, default) on a function whose domain is the keys present
Get(d, key, default) == IF key \in DOMAIN d THEN d[key] ELSE default

\* d[key] = value
Put(d, key, value) == (key :> value) @@ d

EmptyDict == [k \in {} |-> Null]

\* ------------------------------------------------------- schema value codec
\* variant: options are compared with their case
MatchOptionExact(options, str_val) ==
    IF \E i \in 1..Len(options) : options[i] = str_val
    THEN CHOOSE i \in 1..Len(options) :
            /\ options[i] = str_val
            /\ \A j \in 1..(i - 1) : options[j] # str_val
    ELSE 0

\* first option equal to the value ignoring case, in list order; 0 if none
MatchOption(options, str_val) ==
    IF \E i \in 1..Len(options) : Lower(options[i]) = Lower(str_val)
    THEN CHOOSE i \in 1..Len(options) :
            /\ Lower(options[i]) = Lower(str_val)
            /\ \A j \in 1..(i - 1) : Lower(options[j]) # Lower(str_val)
    ELSE 0

DateStart(date_str) ==
    IF Contains(date_str, <<"T">>)
    THEN IF Contains(date_str, <<"+">>) \/ EndsWithChar(date_str, "Z")
         THEN date_str
         ELSE Prefix(date_str, DateTimeLen)
    ELSE Prefix(date_str, DateOnlyLen)

Tags(value) ==
    IF value.t = "list"
    THEN [i \in 1..Min(Len(value.l), MultiSelectLimit) |->
              Prefix(Str(value.l[i]), OptionLimit)]
    ELSE <<Prefix(Str(value), OptionLimit)>>

CheckboxTrue(value) ==
    IF value.t = "bool" THEN value.b
    ELSE Lower(Str(value)) \in { <<"t","r","u","e">>, <<"y","e","s">>, <<"1">> }

\* variant: a type outside the vocabulary is written as text
EncodeValueAsText(prop_type, value, prop_info) ==
    IF value = Null THEN Null
    ELSE [k |-> "rich_text", content |-> Prefix(Str(value), TitleTextLimit)]

\* the shared body of _convert_to_notion_value and build_property_value
EncodeValue(prop_type, value, prop_info) ==
    IF value = Null THEN Null
    ELSE CASE prop_type = "title" ->
                [k |-> "title", content |-> Prefix(Str(value), TitleTextLimit)]
           [] prop_type = "rich_text" ->
                [k |-> "rich_text", content |-> Prefix(Str(value), TitleTextLimit)]
           [] prop_type = "number" ->
                IF Float(value).ok THEN [k |-> "number", number |-> Float(value).n]
                ELSE Null
           [] prop_type = "select" ->
                LET options == Get(prop_info, "options", <<>>)
                    str_val == Strip(Str(value))
                    m == MatchOption(options, str_val)
                IN  IF m > 0 THEN [k |-> "select", name |-> options[m]]
                    ELSE [k |-> "select", name |-> Prefix(str_val, OptionLimit)]
           [] prop_type = "multi_select" ->
                [k |-> "multi_select", tags |-> Tags(value)]
           [] prop_type = "status" ->
                LET options == Get(prop_info, "options", <<>>)
                    str_val == Strip(Str(value))
                    m == MatchOption(options, str_val)
                IN  IF m > 0 THEN [k |-> "status", name |-> options[m]]
                    ELSE IF Len(options) > 0 THEN [k |-> "status", name |-> options[1]]
                    ELSE Null
           [] prop_type = "date" ->
                [k |-> "date", start |-> DateStart(Str(value))]
           [] prop_type = "checkbox" ->
                [k |-> "checkbox", checkbox |-> CheckboxTrue(value)]
           [] prop_type = "url" -> [k |-> "url", text |-> Str(value)]
           [] prop_type = "email" -> [k |-> "email", text |-> Str(value)]
           [] prop_type = "phone_number" -> [k |-> "phone_number", text |-> Str(value)]
           [] OTHER -> Null

\* app/services/ai/property_mapper.py
ConvertToNotionValue(prop_type, value, prop_info) ==
    EncodeValue(prop_type, value, prop_info)

\* app/services/notion/properties.py
BuildPropertyValue(prop_type, value, prop_info) ==
    EncodeValue(prop_type, value, prop_info)

\* ------------------------------------------------- document store contents
Field(name, type, options) == [name |-> name, type |-> type, options |-> options]

Movies == [id |-> "db_movies", title |-> <<"M","o","v","i","e","s">>]
Blog == [id |-> "db_blog", title |-> <<"B","L","O","G">>]
Activity == [id |-> "db_activity", title |-> <<"A","c","t","i","v","i","t","y">>]

\* the databases the integration may be able to see
DbPool == {Movies, Blog, Activity}

AutoTypes ==
    {"formula", "rollup", "created_time", "created_by", "last_edited_time", "last_edited_by"}

Done_ == <<"D","o","n","e">>
ToDo_ == <<"T","o"," ","D","o">>

\* the schema each database has in the store (fetched afresh by every request)
DbSchema(database_id) ==
    CASE database_id = "db_movies" ->
            << Field("Name", "title", <<>>),
               Field("Year", "number", <<>>),
               Field("Status", "status", <<ToDo_, Done_>>),
               Field("Created", "created_time", <<>>) >>
      [] database_id = "db_blog" ->
            << Field("Title", "title", <<>>),
               Field("Published", "date", <<>>) >>
      [] OTHER ->
            << Field("Action", "title", <<>>),
               Field("Timestamp", "date", <<>>),
               Field("Result", "select", <<>>) >>

FieldNames(schema) == {schema[i].name : i \in 1..Len(schema)}

\* database_properties[prop_name]
FieldOf(schema, name) == schema[CHOOSE i \in 1..Len(schema) : schema[i].name = name]

\* ------------------------------------------------ notion/databases.py
log_indicators ==
    << <<"l","o","g">>, <<"l","o","g","s">>, <<"a","c","t","i","v","i","t","y">>,
       <<"h","i","s","t","o","r","y">>, <<"j","o","u","r","n","a","l">> >>

IsLogTitle(title) ==
    \E k \in 1..Len(log_indicators) : Contains(Lower(title), log_indicators[k])

\* variant: the title is matched without lower-casing it
detect_log_database_cased(dbs) ==
    IF \E i \in 1..Len(dbs), k \in 1..Len(log_indicators) :
           Contains(dbs[i].title, log_indicators[k])
    THEN dbs[CHOOSE i \in 1..Len(dbs) :
                \E k \in 1..Len(log_indicators) :
                    Contains(dbs[i].title, log_indicators[k])].id
    ELSE NoneKey

\* detect_log_database: id of the first database whose title holds an indicator
detect_log_database(dbs) ==
    IF \E i \in 1..Len(dbs) : IsLogTitle(dbs[i].title)
    THEN dbs[CHOOSE i \in 1..Len(dbs) :
                /\ IsLogTitle(dbs[i].title)
                /\ \A j \in 1..(i - 1) : ~IsLogTitle(dbs[j].title)].id
    ELSE NoneKey

\* fetch_database_properties: {} when get_database fails, else the schema
fetch_database_properties(database_id, ok) ==
    IF ok THEN DbSchema(database_id) ELSE <<>>

\* ------------------------------------------------ ai/database_selector.py
\* the outcome of the Selector's reasoning call
\*   transport: the call raises;  noparse: no {...} in the reply;
\*   badjson: json.loads raises;  json: a parsed object
\* variant: a failed call falls back to a low-confidence guess
FailureGuess(reason) ==
    [success |-> FALSE, database |-> Null, reason |-> reason,
     confidence |-> FallbackConfidence]

Failure(reason) ==
    [success |-> FALSE, database |-> Null, reason |-> reason, confidence |-> 0]

\* variant: the threshold itself is refused
SelectorAcceptsAbove(found_match, index, n, confidence) ==
    /\ found_match
    /\ index.t # "null"
    /\ 0 <= index.n
    /\ index.n < n
    /\ confidence > ConfidenceThreshold

\* line 83
SelectorAccepts(found_match, index, n, confidence) ==
    /\ found_match
    /\ index.t # "null"
    /\ 0 <= index.n
    /\ index.n < n
    /\ confidence >= ConfidenceThreshold

\* variant: without a client the last candidate is taken
NoClientSelectionLast(dbs) ==
    [success |-> TRUE, database |-> dbs[Len(dbs)],
     reason |-> "OpenAI not configured - using first database",
     confidence |-> FallbackConfidence]

\* lines 29-35
NoClientSelection(dbs) ==
    [success |-> TRUE, database |-> dbs[1],
     reason |-> "OpenAI not configured - using first database",
     confidence |-> FallbackConfidence]

\* lines 19-35: the reasoning call lies past both early returns
SelectorCallsReasoner(client_ok, dbs) == Len(dbs) > 0 /\ client_ok

select_best_database(client_ok, dbs, reply) ==
    IF Len(dbs) = 0
    THEN Failure("No databases available. Please share a Notion page with databases.")
    ELSE IF ~client_ok
    THEN NoClientSelection(dbs)
    ELSE CASE reply.kind = "transport" -> Failure("error: transport")
           [] reply.kind = "badjson" -> Failure("error: json")
           [] reply.kind = "noparse" -> Failure("Parse failed")
           [] OTHER ->
                LET found_match == Get(reply.body, "found_match", FALSE)
                    index == Get(reply.body, "selected_index", Null)
                    conf == Get(reply.body, "confidence", N(0))
                    reason == Get(reply.body, "reason", "No reason provided")
                IN  IF conf.t # "num"
                    THEN Failure("error: float")
                    ELSE IF found_match /\ index.t \notin {"null", "num"}
                    THEN Failure("error: compare")
                    ELSE IF SelectorAccepts(found_match, index, Len(dbs), conf.n)
                    THEN [success |-> TRUE, database |-> dbs[index.n + 1],
                          reason |-> reason, confidence |-> conf.n]
                    ELSE [success |-> FALSE, database |-> Null,
                          reason |-> reason, confidence |-> conf.n]

\* ------------------------------------------------ ai/property_mapper.py
EmptyMapping(left_empty, why) ==
    [properties |-> EmptyDict, filled_from_user |-> <<>>,
     left_empty |-> left_empty, ai_reasoning |-> why]

\* one pass of the loop over result["mappings"]
MapOne(acc, mapping, schema) ==
    LET prop_name == mapping.property
        value == mapping.value
    IN  IF prop_name # NoneKey /\ value # Null /\ prop_name \in FieldNames(schema)
        THEN LET prop_info == FieldOf(schema, prop_name)
                 prop_type == prop_info.type
                 notion_value == ConvertToNotionValue(prop_type, value, prop_info)
             IN  IF notion_value # Null
                 THEN [properties |-> Put(acc.properties, prop_name, notion_value),
                       filled_from_user |-> Append(acc.filled_from_user,
                           [property |-> prop_name,
                            value |-> Prefix(Str(value), FilledValueLimit),
                            source |-> mapping.source,
                            type |-> prop_type])]
                 ELSE acc
        ELSE acc

RECURSIVE MapAll(_, _, _)
MapAll(acc, mappings, schema) ==
    IF Len(mappings) = 0 THEN acc
    ELSE MapAll(MapOne(acc, mappings[1], schema), Tail(mappings), schema)

RECURSIVE UnmappedInSchema(_, _)
UnmappedInSchema(unmapped, schema) ==
    IF Len(unmapped) = 0 THEN <<>>
    ELSE IF unmapped[1] \in FieldNames(schema)
         THEN <<[property |-> unmapped[1], type |-> FieldOf(schema, unmapped[1]).type]>>
              \o UnmappedInSchema(Tail(unmapped), schema)
         ELSE UnmappedInSchema(Tail(unmapped), schema)

\* lines 108-118: the fields offered to the reasoning collaborator
EligibleForPrompt(schema) ==
    {schema[i].name : i \in {j \in 1..Len(schema) : schema[j].type \notin AutoTypes}}

\* lines 105-137: the prompt carries the capture time and the offered fields
MapperPrompt(now, schema) == [datetime |-> now, fields |-> EligibleForPrompt(schema)]

\* list(database_properties.keys()): bare names, written [str |-> name]
SchemaKeys(schema) == [i \in 1..Len(schema) |-> [str |-> schema[i].name]]

map_properties_dynamically(client_ok, schema, reply) ==
    IF ~client_ok
    THEN EmptyMapping(SchemaKeys(schema), "OpenAI not available")
    ELSE CASE reply.kind = "transport" -> EmptyMapping(<<>>, "error: transport")
           [] reply.kind = "badjson" -> EmptyMapping(<<>>, "error: json")
           [] reply.kind = "noparse" -> EmptyMapping(<<>>, "Parse failed")
           [] OTHER ->
                LET acc == MapAll([properties |-> EmptyDict, filled_from_user |-> <<>>],
                                  Get(reply.body, "mappings", <<>>), schema)
                IN  [properties |-> acc.properties,
                     filled_from_user |-> acc.filled_from_user,
                     left_empty |-> UnmappedInSchema(
                         Get(reply.body, "unmapped_properties", <<>>), schema),
                     ai_reasoning |-> Get(reply.body, "overall_reasoning", "")]

\* ------------------------------------------------ ai/enricher.py
identify_researchable_properties(client_ok, empty_properties, reply) ==
    IF ~client_ok \/ Len(empty_properties) = 0 THEN <<>>
    ELSE IF reply.kind = "json" THEN Get(reply.body, "researchable", <<>>)
    ELSE <<>>

RECURSIVE DropNull(_)
\* {k: v for k, v in enriched.items() if v is not None}
DropNull(pairs) ==
    IF Len(pairs) = 0 THEN <<>>
    ELSE IF pairs[1].value # Null THEN <<pairs[1]>> \o DropNull(Tail(pairs))
    ELSE DropNull(Tail(pairs))

enrich_properties(client_ok, researchable_properties, reply) ==
    IF ~client_ok \/ Len(researchable_properties) = 0 THEN <<>>
    ELSE IF reply.kind = "json" THEN DropNull(reply.body)
    ELSE <<>>

\* ------------------------------------------------ notion/properties.py
\* variant: a value is reported as filled whether or not it could be encoded
ApplyOneReported(acc, pair, schema) ==
    IF pair.value = Null THEN acc
    ELSE LET known == pair.property \in FieldNames(schema)
             prop_info == IF known THEN FieldOf(schema, pair.property) ELSE EmptyDict
             prop_type == Get(prop_info, "type", "rich_text")
             prop_value == BuildPropertyValue(prop_type, pair.value, prop_info)
         IN  [properties |-> IF prop_value # Null
                             THEN Put(acc.properties, pair.property, prop_value)
                             ELSE acc.properties,
              filled_by_ai |-> Append(acc.filled_by_ai,
                  [property |-> pair.property,
                   value |-> Prefix(Str(pair.value), FilledValueLimit),
                   type |-> prop_type])]

\* one pass of the loop over enriched_data
ApplyOne(acc, pair, schema) ==
    IF pair.value = Null THEN acc
    ELSE LET known == pair.property \in FieldNames(schema)
             prop_info == IF known THEN FieldOf(schema, pair.property) ELSE EmptyDict
             prop_type == Get(prop_info, "type", "rich_text")
             prop_value == BuildPropertyValue(prop_type, pair.value, prop_info)
         IN  IF prop_value # Null
             THEN [properties |-> Put(acc.properties, pair.property, prop_value),
                   filled_by_ai |-> Append(acc.filled_by_ai,
                       [property |-> pair.property,
                        value |-> Prefix(Str(pair.value), FilledValueLimit),
                        type |-> prop_type])]
             ELSE acc

RECURSIVE ApplyAll(_, _, _)
ApplyAll(acc, pairs, schema) ==
    IF Len(pairs) = 0 THEN acc
    ELSE ApplyAll(ApplyOne(acc, pairs[1], schema), Tail(pairs), schema)

apply_enriched_properties(existing_properties, enriched_data, schema) ==
    ApplyAll([properties |-> existing_properties, filled_by_ai |-> <<>>],
             enriched_data, schema)

RECURSIVE Without(_, _)
\* [p for p in left_empty if p.get("property") not in names]
Without(left_empty, names) ==
    IF Len(left_empty) = 0 THEN <<>>
    ELSE IF Get(left_empty[1], "property", NoneKey) \in names
         THEN Without(Tail(left_empty), names)
         ELSE <<left_empty[1]>> \o Without(Tail(left_empty), names)

\* ------------------------------------------------------- request inputs
\* raw X-Google-Tokens / body google_tokens strings
TokenStrings == {NoneKey, "", "not json", "{}", "{ok}", "{expired}", "123"}

\* _parse_google_tokens: None for a missing, empty or non-JSON string, else json.loads
ParseGoogleTokens(tokens_str) ==
    CASE tokens_str \in {NoneKey, "", "not json"} -> NoneKey
      [] tokens_str = "{ok}" -> "tokens_ok"
      [] tokens_str = "{expired}" -> "tokens_expired"
      [] tokens_str = "123" -> "nonobject"
      [] OTHER -> "{}"

\* Python truthiness of the parsed tokens / of an API key
Truthy(x) == x \notin {NoneKey, "", "{}"}

\* a or b
Or(a, b) == IF Truthy(a) THEN a ELSE b

KeyStrings == {NoneKey, "", "secret"}

\* token values a typed caller of process_capture_result may pass
TypedTokens == {NoneKey, "tokens_ok"}

\* classifications a direct caller may pass
DirectAnalyses ==
    { [category |-> "event", title |-> "Dentist"], [category |-> "task"] }

\* ------------------------------------------------------- collaborator replies
Transport == [kind |-> "transport"]
NoParse == [kind |-> "noparse"]
BadJson == [kind |-> "badjson"]
Json(body) == [kind |-> "json", body |-> body]

FailedReplies == {Transport, NoParse, BadJson}

Indexes == {Null, S(<<"0">>)} \cup {N(i) : i \in (0 - 1)..MaxCandidates}

ConfidenceParts ==
    {EmptyDict, [confidence |-> S(<<"h","i","g","h">>)]}
        \cup {[confidence |-> N(c)] : c \in {49, ConfidenceThreshold, 90}}

\* replies with every key, and replies that leave keys out
SelectReplies ==
    FailedReplies \cup
    { Json([found_match |-> f, selected_index |-> i, reason |-> "Fits the content"] @@ c) :
        f \in BOOLEAN, i \in Indexes, c \in ConfidenceParts }
    \cup { Json(EmptyDict), Json([found_match |-> TRUE, confidence |-> N(90)]),
           Json([found_match |-> TRUE, selected_index |-> N(0),
                 confidence |-> N(ConfidenceThreshold)]) }

Dune == <<"D","u","n","e">>

Mapping(name, value) == [property |-> name, value |-> value, source |-> "user"]

MapCandidates ==
    { Mapping("Name", S(Dune)), Mapping("Name", Null),
      Mapping("Year", S(<<"s","o","o","n">>)), Mapping("Ghost", S(Dune)) }

SeqsUpTo(set, n) == UNION {[1..k -> set] : k \in 0..n}

UnmappedLists == { <<>>, <<"Year">>, <<"Year", "Created", "Ghost">> }

MapReplies ==
    FailedReplies \cup
    { Json([mappings |-> m, unmapped_properties |-> u]) :
        m \in SeqsUpTo(MapCandidates, MaxMappings), u \in UnmappedLists }

IdentifyReplies ==
    FailedReplies \cup {Json(EmptyDict)} \cup
    { Json([researchable |-> r]) : r \in { <<>>, <<"Year">> } }

Pair(name, value) == [property |-> name, value |-> value]

EnrichReplies ==
    FailedReplies \cup
    { Json(e) : e \in { <<>>, <<Pair("Year", Null)>>,
                        <<Pair("Year", S(<<"2","0","2","1">>))>>,
                        <<Pair("Year", S(<<"s","o","o","n">>)), Pair("Name", S(Dune))>>,
                        <<Pair("Ghost", S(Dune))>> } }

NoRepeat(dbs) ==
    \A i, j \in 1..Len(dbs) : i # j => dbs[i].id # dbs[j].id

\* the candidate lists fetch_databases may return
DbLists == {dbs \in SeqsUpTo(DbPool, MaxCandidates) : NoRepeat(dbs)}

\* ------------------------------------------------------------------ state
VARIABLES
    openai_api_key,   \* OPENAI_API_KEY is configured
    client,           \* core/openai_client.py _client is set
    pc,               \* position of the request in the flow
    entry,            \* "endpoint" | "direct" | NoneKey
    analysis,         \* the classification record
    notion_api_key,
    google_tokens,
    databases,
    db_selection,
    log_db_id,
    properties,       \* schema fetched for the selected database
    mapped_properties,
    researchable,
    enriched_data,
    result,
    summary,
    calls,            \* external calls and component invocations, in order
    response,         \* what the caller receives
    fn_in,            \* arguments of a component applied on its own
    fn_out,           \* what it returned
    requests,         \* the frame of a second request in progress, not running now
    oauth             \* the Google sign-in: states issued, state file, exchanges

vars ==
    <<openai_api_key, client, pc, entry, analysis, notion_api_key, google_tokens,
      databases, db_selection, log_db_id, properties, mapped_properties,
      researchable, enriched_data, result, summary, calls, response, fn_in, fn_out,
      requests, oauth>>

\* the state of one request and of the process serving it
pipeline_vars ==
    <<openai_api_key, client, pc, entry, analysis, notion_api_key, google_tokens,
      databases, db_selection, log_db_id, properties, mapped_properties,
      researchable, enriched_data, result, summary, calls, response>>

Call(op, db, ok) == [op |-> op, db |-> db, ok |-> ok]

NoResponse == [kind |-> "none"]

\* get_openai_client(): the client after the lazy initialisation
get_openai_client == client \/ openai_api_key

\* variant: a client object is stored even without an API key
StoredClientAlways == TRUE

\* core/openai_client.py lines 15-18: what the call leaves in _client
StoredClient == get_openai_client

Blank ==
    /\ pc = "idle"
    /\ entry = NoneKey
    /\ analysis = EmptyDict
    /\ notion_api_key = NoneKey
    /\ google_tokens = NoneKey
    /\ databases = <<>>
    /\ db_selection = Null
    /\ log_db_id = NoneKey
    /\ properties = <<>>
    /\ mapped_properties = EmptyDict
    /\ researchable = <<>>
    /\ enriched_data = <<>>
    /\ result = EmptyDict
    /\ summary = EmptyDict
    /\ calls = <<>>
    /\ response = NoResponse

Init ==
    /\ openai_api_key \in BOOLEAN
    /\ client = FALSE
    /\ Blank
    /\ fn_in = Null
    /\ fn_out = Null
    /\ requests = Null
    /\ oauth = Null

Error(msg, detail) == [msg |-> msg, detail |-> detail]

\* an exception leaves process_capture_result: the endpoint's except clause
\* turns it into a 500 without a step tag, a direct caller sees the exception
Raise ==
    /\ pc' = "raised"
    /\ response' = IF entry = "endpoint"
                   THEN [kind |-> "error", status_code |-> 500, step |-> NoneKey]
                   ELSE [kind |-> "exception"]

\* ------------------------------------------------ api/routes/capture.py
ProcessTextEndpoint ==
    /\ pc = "idle"
    /\ entry' = "endpoint"
    /\ \E text_empty \in BOOLEAN, body_key, header_key \in KeyStrings,
          body_tokens, header_tokens \in TokenStrings :
          IF text_empty
          THEN /\ response' = [kind |-> "error", status_code |-> 400, step |-> NoneKey]
               /\ pc' = "done"
               /\ UNCHANGED <<notion_api_key, google_tokens>>
          ELSE /\ notion_api_key' = Or(body_key, header_key)
               /\ google_tokens' = Or(ParseGoogleTokens(body_tokens),
                                      ParseGoogleTokens(header_tokens))
               /\ pc' = "analyze"
               /\ UNCHANGED response
    /\ UNCHANGED <<oauth, requests, fn_in, fn_out, openai_api_key, client, analysis, databases, db_selection, log_db_id,
                   properties, mapped_properties, researchable, enriched_data,
                   result, summary, calls>>

\* ------------------------------------------------ ai/analyzer.py
\* outcome of the classifier call: "raise" (the call errors), "noparse" (no JSON
\* in the reply), or the category the parsed reply names
ClassifierOutcomes == {"raise", "noparse", "event", "other", "recipe"}

analyze_text(client_ok, outcome) ==
    IF ~client_ok
    THEN [success |-> FALSE, category |-> NoneKey]
    ELSE CASE outcome = "raise" ->
                [success |-> TRUE, category |-> "other", title |-> "AI Analysis Failed"]
           [] outcome = "noparse" ->
                [success |-> TRUE, category |-> "other", title |-> "Parse Error"]
           [] outcome = "event" ->
                [success |-> TRUE, category |-> "event", title |-> "Dentist"]
           [] OTHER ->
                [success |-> TRUE, category |-> "other", title |-> "Dentist"]

\* variant: the endpoint ignores the classifier's failure signal
AnalysisFailedIgnored(a) == FALSE

\* api/routes/capture.py line 71
AnalysisFailed(a) == ~Get(a, "success", FALSE)

\* process_text_endpoint, step 1
AnalyzeText ==
    /\ pc = "analyze"
    /\ client' = StoredClient
    /\ \E outcome \in ClassifierOutcomes :
          LET a == analyze_text(get_openai_client, outcome)
          IN  /\ analysis' = a
              /\ calls' = IF get_openai_client
                          THEN Append(calls, Call("reason.classify", "", outcome # "raise"))
                          ELSE calls
              /\ IF AnalysisFailed(a)
                 THEN /\ response' = [kind |-> "error", status_code |-> 500,
                                      step |-> "ai_analysis"]
                      /\ pc' = "done"
                 ELSE /\ pc' = "route"
                      /\ UNCHANGED response
    /\ UNCHANGED <<oauth, requests, fn_in, fn_out, openai_api_key, entry, notion_api_key, google_tokens, databases,
                   db_selection, log_db_id, properties, mapped_properties,
                   researchable, enriched_data, result, summary>>

\* a direct call of process_capture_result with a classification in hand
DirectCall ==
    /\ pc = "idle"
    /\ entry' = "direct"
    /\ analysis' \in DirectAnalyses
    /\ notion_api_key' \in KeyStrings
    /\ google_tokens' \in TypedTokens
    /\ pc' = "route"
    /\ UNCHANGED <<oauth, requests, fn_in, fn_out, openai_api_key, client, databases, db_selection, log_db_id,
                   properties, mapped_properties, researchable, enriched_data,
                   result, summary, calls, response>>

\* ------------------------------------------------ services/capture.py
\* variant: every category but the default goes to the calendar
RoutesToCalendarLoose(category) == category # "other"

\* line 51: the branch on category
RoutesToCalendar(category) == category = "event"

\* variant: the credential check is skipped
NotionMissingNever(api_key) == FALSE

\* line 109
NotionMissing(api_key) == ~Truthy(api_key)

\* lines 30-49, the branch on category, and both credential checks
Route ==
    /\ pc = "route"
    /\ LET category == Get(analysis, "category", "other")
           title == Get(analysis, "title", "Untitled")
           base == [status |-> "success", category |-> category, title |-> title]
           sum0 == [destination |-> NoneKey, database |-> NoneKey,
                    filled_from_user |-> <<>>, filled_by_ai |-> <<>>,
                    left_empty |-> <<>>]
       IN  IF RoutesToCalendar(category)
           THEN /\ summary' = Put(sum0, "destination", "Google Calendar")
                /\ IF ~Truthy(google_tokens)
                   THEN /\ result' = Put(Put(base, "calendar_event_created", FALSE),
                                         "calendar_error",
                                         Error("Google Calendar not connected", ""))
                        /\ pc' = "status"
                   ELSE /\ result' = base
                        /\ pc' = "calendar"
           ELSE IF NotionMissing(notion_api_key)
                THEN /\ summary' = Put(Put(sum0, "destination", "Notion"), "left_empty",
                                       <<[reason |-> "Notion not connected"]>>)
                     /\ result' = Put(Put(base, "notion_created", FALSE),
                                      "notion_error", Error("Notion not connected", ""))
                     /\ pc' = "status"
                ELSE /\ summary' = Put(sum0, "destination", "Notion")
                     /\ result' = base
                     /\ pc' = "list"
    /\ UNCHANGED <<oauth, requests, fn_in, fn_out, openai_api_key, client, entry, analysis, notion_api_key,
                   google_tokens, databases, db_selection, log_db_id, properties,
                   mapped_properties, researchable, enriched_data, calls, response>>

\* google/auth.py build_credentials_from_tokens: usable credentials or None
CredentialsValid(tokens, refresh_ok) ==
    tokens = "tokens_ok" \/ (tokens = "tokens_expired" /\ refresh_ok)

\* google/calendar.py create_calendar_event
create_calendar_event(credentials_valid, category, outcome) ==
    IF ~credentials_valid
    THEN [success |-> FALSE,
          error |-> Error("Google Calendar not connected or credentials invalid", "")]
    ELSE IF category # "event"
    THEN [success |-> FALSE, error |-> Error("Cannot sync category", category)]
    ELSE CASE outcome = "created" -> [success |-> TRUE, error |-> Null]
           [] outcome = "http_error" ->
                [success |-> FALSE, error |-> Error("Google Calendar API Error", "")]
           [] OTHER ->
                [success |-> FALSE, error |-> Error("Error creating calendar event", "")]

\* lines 73-99
CalendarCreate ==
    /\ pc = "calendar"
    /\ IF google_tokens = "nonobject"
       THEN /\ Raise
            /\ calls' = Append(calls, Call("create_calendar_event", "", FALSE))
            /\ UNCHANGED <<result, summary>>
       ELSE \E refresh_ok \in BOOLEAN, outcome \in {"created", "http_error", "exception"} :
               LET sync_result == create_calendar_event(
                                      CredentialsValid(google_tokens, refresh_ok),
                                      "event", outcome)
               IN  /\ calls' = Append(calls,
                                  Call("create_calendar_event", "", sync_result.success))
                   /\ IF sync_result.success
                      THEN /\ result' = Put(Put(result, "calendar_event_created", TRUE),
                                            "event_info", [title |-> result["title"]])
                           /\ summary' = Put(summary, "filled_from_user",
                                             <<[field |-> "title"], [field |-> "start_time"]>>)
                      ELSE /\ result' = Put(Put(result, "calendar_event_created", FALSE),
                                            "calendar_error", sync_result.error)
                           /\ UNCHANGED summary
                   /\ pc' = "status"
                   /\ UNCHANGED response
    /\ UNCHANGED <<oauth, requests, fn_in, fn_out, openai_api_key, client, entry, analysis, notion_api_key,
                   google_tokens, databases, db_selection, log_db_id, properties,
                   mapped_properties, researchable, enriched_data>>

\* notion/databases.py fetch_databases: [] when the search fails
fetch_databases(found, search_ok) == IF search_ok THEN found ELSE <<>>

\* lines 115-119
ListDatabases ==
    /\ pc = "list"
    /\ \E found \in DbLists, search_ok \in BOOLEAN :
          LET dbs == fetch_databases(found, search_ok)
          IN  /\ databases' = dbs
              /\ calls' = Append(calls, Call("fetch_databases", "", search_ok))
              /\ IF Len(dbs) = 0
                 THEN /\ result' = Put(Put(result, "notion_created", FALSE),
                                       "notion_error",
                                       Error("No Notion databases found", ""))
                      /\ pc' = "status"
                 ELSE /\ pc' = "select"
                      /\ UNCHANGED result
    /\ UNCHANGED <<oauth, requests, fn_in, fn_out, openai_api_key, client, entry, analysis, notion_api_key,
                   google_tokens, db_selection, log_db_id, properties,
                   mapped_properties, researchable, enriched_data, summary, response>>

\* the entries one reasoning-backed component adds to the call log
Reasoned(op, ok, reply) ==
    IF get_openai_client
    THEN <<Call(op, "", ok), Call("reason", op, reply.kind # "transport")>>
    ELSE <<Call(op, "", ok)>>

\* variant: the error drops the Selector's reason
SelectionErrorBare(sel) == Error("No suitable database found", "")

\* line 130
SelectionError(sel) == Error("No suitable database found", sel.reason)

\* lines 122-164
SelectDatabase ==
    /\ pc = "select"
    /\ client' = StoredClient
    /\ \E reply \in SelectReplies :
          LET sel == select_best_database(get_openai_client, databases, reply)
              log == detect_log_database(databases)
          IN  /\ db_selection' = sel
              /\ log_db_id' = log
              /\ calls' = calls \o Reasoned("select_best_database", sel.success, reply)
              /\ IF ~sel.success
                 THEN /\ result' = Put(Put(result, "notion_created", FALSE),
                                       "notion_error", SelectionError(sel))
                      /\ summary' = Put(Put(summary, "database_selection_failed", TRUE),
                                        "database_selection_reason", sel.reason)
                      /\ pc' = IF Truthy(log) THEN "log" ELSE "status"
                 ELSE /\ summary' = Put(Put(Put(summary,
                                        "database", sel.database.title),
                                        "database_selection_reason", sel.reason),
                                        "database_selection_confidence", sel.confidence)
                      /\ pc' = "schema"
                      /\ UNCHANGED result
    /\ UNCHANGED <<oauth, requests, fn_in, fn_out, openai_api_key, entry, analysis, notion_api_key, google_tokens,
                   databases, properties, mapped_properties, researchable,
                   enriched_data, response>>

\* line 167
FetchSchema ==
    /\ pc = "schema"
    /\ \E ok \in BOOLEAN :
          /\ properties' = fetch_database_properties(db_selection.database.id, ok)
          /\ calls' = Append(calls,
                Call("fetch_database_properties", db_selection.database.id, ok))
    /\ pc' = "map"
    /\ UNCHANGED <<oauth, requests, fn_in, fn_out, openai_api_key, client, entry, analysis, notion_api_key,
                   google_tokens, databases, db_selection, log_db_id,
                   mapped_properties, researchable, enriched_data, result, summary,
                   response>>

\* variant: identification is asked for whatever the Mapper left empty
IdentifyGateOpen(left_empty) == TRUE

\* line 180: identification runs only when the Mapper left something empty
IdentifyGate(left_empty) == Len(left_empty) > 0

\* lines 171-180
MapProperties ==
    /\ pc = "map"
    /\ client' = StoredClient
    /\ \E reply \in MapReplies :
          LET mapping_result ==
                  map_properties_dynamically(get_openai_client, properties, reply)
          IN  /\ mapped_properties' = mapping_result.properties
              /\ summary' = Put(Put(Put(summary,
                                "filled_from_user", mapping_result.filled_from_user),
                                "left_empty", mapping_result.left_empty),
                                "mapping_reasoning", mapping_result.ai_reasoning)
              /\ calls' = calls \o Reasoned("map_properties_dynamically",
                                            reply.kind = "json", reply)
              /\ pc' = IF IdentifyGate(mapping_result.left_empty)
                       THEN "identify" ELSE "create"
    /\ UNCHANGED <<oauth, requests, fn_in, fn_out, openai_api_key, entry, analysis, notion_api_key, google_tokens,
                   databases, db_selection, log_db_id, properties, researchable,
                   enriched_data, result, response>>

\* lines 180-187
Identify ==
    /\ pc = "identify"
    /\ client' = StoredClient
    /\ \E reply \in IdentifyReplies :
          LET found == identify_researchable_properties(
                           get_openai_client, summary["left_empty"], reply)
          IN  /\ researchable' = found
              /\ calls' = calls \o Reasoned("identify_researchable_properties",
                                            reply.kind = "json", reply)
              /\ pc' = IF Len(found) > 0 THEN "enrich" ELSE "create"
    /\ UNCHANGED <<oauth, requests, fn_in, fn_out, openai_api_key, entry, analysis, notion_api_key, google_tokens,
                   databases, db_selection, log_db_id, properties, mapped_properties,
                   enriched_data, result, summary, response>>

\* lines 187-205
Enrich ==
    /\ pc = "enrich"
    /\ client' = StoredClient
    /\ \E reply \in EnrichReplies :
          LET data == enrich_properties(get_openai_client, researchable, reply)
              enrich_result == apply_enriched_properties(mapped_properties, data, properties)
              ai_filled_names ==
                  {enrich_result.filled_by_ai[i].property :
                      i \in 1..Len(enrich_result.filled_by_ai)}
          IN  /\ enriched_data' = data
              /\ calls' = calls \o Reasoned("enrich_properties", reply.kind = "json", reply)
              /\ IF Len(data) > 0
                 THEN /\ mapped_properties' = enrich_result.properties
                      /\ summary' = Put(Put(summary,
                                        "filled_by_ai", enrich_result.filled_by_ai),
                                        "left_empty",
                                        Without(summary["left_empty"], ai_filled_names))
                 ELSE UNCHANGED <<mapped_properties, summary>>
    /\ pc' = "create"
    /\ UNCHANGED <<oauth, requests, fn_in, fn_out, openai_api_key, entry, analysis, notion_api_key, google_tokens,
                   databases, db_selection, log_db_id, properties, researchable,
                   result, response>>

\* notion/client.py create_page: HTTP errors and exceptions become a failure record
create_page(ok) ==
    IF ok THEN [success |-> TRUE, error |-> Null]
    ELSE [success |-> FALSE, error |-> Error("Notion API", "")]

\* variant: a failed create is issued a second time
CreateCallsRetry(database_id, ok) ==
    IF ok THEN <<Call("create_page", database_id, ok)>>
    ELSE <<Call("create_page", database_id, ok), Call("create_page", database_id, ok)>>

\* variant: the create is left out
CreateCallsNone(database_id, ok) == <<>>

\* line 209: the one create call on the selected database
CreateCalls(database_id, ok) == <<Call("create_page", database_id, ok)>>

\* variant: a failed create leaves no error text
PageOutcomeSilent(current, create_result, db_title) ==
    IF create_result.success
    THEN Put(Put(current, "notion_created", TRUE), "notion_info", [database |-> db_title])
    ELSE Put(current, "notion_created", FALSE)

\* lines 211-217 and 243-244
PageOutcome(current, create_result, db_title) ==
    IF create_result.success
    THEN Put(Put(current, "notion_created", TRUE), "notion_info", [database |-> db_title])
    ELSE Put(Put(current, "notion_created", FALSE), "notion_error", create_result.error)

\* lines 208-265, up to the log write
CreatePage ==
    /\ pc = "create"
    /\ \E ok \in BOOLEAN :
          /\ calls' = calls \o CreateCalls(db_selection.database.id, ok)
          /\ result' = PageOutcome(result, create_page(ok), db_selection.database.title)
    /\ pc' = IF Truthy(log_db_id) THEN "log" ELSE "status"
    /\ UNCHANGED <<oauth, requests, fn_in, fn_out, openai_api_key, client, entry, analysis, notion_api_key,
                   google_tokens, databases, db_selection, log_db_id, properties,
                   mapped_properties, researchable, enriched_data, summary, response>>

\* variant: a failed log write is reported in the result
write_log_entry_surfaced(current, create_result) ==
    IF create_result.success THEN current
    ELSE Put(current, "notion_error", create_result.error)

\* notion/databases.py write_log_entry: one schema fetch and one create on the
\* log database; the returned record is dropped by all three callers
write_log_entry(current, create_result) == current

\* lines 144-153, 232-241, 254-263
WriteLog ==
    /\ pc = "log"
    /\ \E schema_ok, create_ok \in BOOLEAN :
          /\ calls' = Append(calls,
                Call("write_log_entry", log_db_id, schema_ok /\ create_ok))
          /\ result' = write_log_entry(result, create_page(create_ok))
    /\ pc' = "status"
    /\ UNCHANGED <<oauth, requests, fn_in, fn_out, openai_api_key, client, entry, analysis, notion_api_key,
                   google_tokens, databases, db_selection, log_db_id, properties,
                   mapped_properties, researchable, enriched_data, summary, response>>

\* google/auth.py get_auth_status
google_auth_status(tokens, refresh_ok) ==
    IF ~Truthy(tokens)
    THEN [connected |-> FALSE, has_credentials |-> FALSE]
    ELSE IF ~CredentialsValid(tokens, refresh_ok)
    THEN [connected |-> FALSE, has_credentials |-> TRUE]
    ELSE [connected |-> TRUE, has_credentials |-> TRUE]

\* notion/client.py get_auth_status
notion_auth_status(api_key, connection_ok) ==
    IF ~Truthy(api_key)
    THEN [connected |-> FALSE, setup_required |-> TRUE]
    ELSE [connected |-> connection_ok, setup_required |-> ~connection_ok]

\* lines 267-272
Status ==
    /\ pc = "status"
    /\ IF google_tokens = "nonobject"
       THEN /\ Raise
            /\ calls' = Append(calls, Call("google_auth_status", "", FALSE))
            /\ UNCHANGED result
       ELSE \E refresh_ok, connection_ok \in BOOLEAN :
               /\ result' = Put(Put(Put(result, "summary", summary),
                                "google_status", google_auth_status(google_tokens, refresh_ok)),
                                "notion_status", notion_auth_status(notion_api_key, connection_ok))
               /\ calls' = calls \o << Call("google_auth_status", "", TRUE),
                                       Call("notion_auth_status", "", TRUE) >>
               /\ pc' = "done"
               /\ response' = [kind |-> "result"]
    /\ UNCHANGED <<oauth, requests, fn_in, fn_out, openai_api_key, client, entry, analysis, notion_api_key,
                   google_tokens, databases, db_selection, log_db_id, properties,
                   mapped_properties, researchable, enriched_data, summary>>

\* the request is over; the process serves the next one
Finish ==
    /\ pc \in {"done", "raised"}
    /\ pc' = "idle"
    /\ entry' = NoneKey
    /\ analysis' = EmptyDict
    /\ notion_api_key' = NoneKey
    /\ google_tokens' = NoneKey
    /\ databases' = <<>>
    /\ db_selection' = Null
    /\ log_db_id' = NoneKey
    /\ properties' = <<>>
    /\ mapped_properties' = EmptyDict
    /\ researchable' = <<>>
    /\ enriched_data' = <<>>
    /\ result' = EmptyDict
    /\ summary' = EmptyDict
    /\ calls' = <<>>
    /\ response' = NoResponse
    /\ UNCHANGED <<oauth, requests, fn_in, fn_out, openai_api_key, client>>

Next ==
    \/ ProcessTextEndpoint
    \/ AnalyzeText
    \/ DirectCall
    \/ Route
    \/ CalendarCreate
    \/ ListDatabases
    \/ SelectDatabase
    \/ FetchSchema
    \/ MapProperties
    \/ Identify
    \/ Enrich
    \/ CreatePage
    \/ WriteLog
    \/ Status
    \/ Finish

Spec == Init /\ [][Next]_vars

\* a request handler runs to completion: each step is taken once enabled
FairSpec == Spec /\ WF_vars(Next)

\* ------------------------------------------------ select_best_database alone
\* the Selector applied once to each candidate list and each reply
SelectorInit ==
    /\ openai_api_key = FALSE
    /\ client = FALSE
    /\ Blank
    /\ fn_in \in [fn : {"select_best_database"}, client_ok : BOOLEAN,
                  databases : DbLists, reply : SelectReplies]
    /\ fn_out = Null
    /\ requests = Null
    /\ oauth = Null

SelectorApply ==
    /\ fn_in # Null
    /\ fn_in.fn = "select_best_database"
    /\ fn_out = Null
    /\ fn_out' = select_best_database(fn_in.client_ok, fn_in.databases, fn_in.reply)
    /\ calls' = IF SelectorCallsReasoner(fn_in.client_ok, fn_in.databases)
                THEN <<Call("reason", "select_best_database",
                            fn_in.reply.kind # "transport")>>
                ELSE <<>>
    /\ UNCHANGED <<oauth, requests, fn_in, openai_api_key, client, pc, entry, analysis, notion_api_key,
                   google_tokens, databases, db_selection, log_db_id, properties,
                   mapped_properties, researchable, enriched_data, result, summary,
                   response>>

SelectorSpec == SelectorInit /\ [][SelectorApply]_vars

\* ------------------------------------------------ reading the call log
Count(op) == Cardinality({i \in 1..Len(calls) : calls[i].op = op})

Called(op) == Count(op) > 0

\* reasoning calls issued by one component
CountReason(component) ==
    Cardinality({i \in 1..Len(calls) :
                    calls[i].op = "reason" /\ calls[i].db = component})

\* the calls of the document-store branch
NotionOps ==
    {"fetch_databases", "select_best_database", "fetch_database_properties",
     "map_properties_dynamically", "identify_researchable_properties",
     "enrich_properties", "create_page", "write_log_entry"}

CalledAny(ops) == \E i \in 1..Len(calls) : calls[i].op \in ops

\* the dictionary holds this value under this key
Has(dict, key, value) == key \in DOMAIN dict /\ dict[key] = value

\* process_capture_result has been entered for the request in hand
Entered == pc \notin {"idle", "analyze"} /\ analysis # EmptyDict /\ result # EmptyDict

\* ------------------------------------------------ C1
\* C1: the calendar create call happens only in a run whose category is
\* "event", every document-store call (list, Selector, schema fetch, Mapper,
\* Enrichment, create, audit write) happens only in a run whose category is not
\* "event", and no run holds both a calendar create and a document-store create.
C1_ExclusiveDestinations ==
    LET category == Get(analysis, "category", "other")
    IN  /\ Called("create_calendar_event") => category = "event"
        /\ CalledAny(NotionOps) => category # "event"
        /\ ~(Called("create_calendar_event") /\ Called("create_page"))

\* an event run that has made its calendar create call and returned
C1_Witness ==
    /\ pc = "done"
    /\ Called("create_calendar_event")
    /\ Has(result, "calendar_event_created", TRUE)
    /\ ~CalledAny(NotionOps)

\* ------------------------------------------------ C2
\* the classification step failed: no classifier, or its call errored
ClassifierUnavailable == entry = "endpoint" /\ ~get_openai_client

ClassifierCallErrored ==
    /\ entry = "endpoint"
    /\ Len(calls) > 0
    /\ calls[1] = Call("reason.classify", "", FALSE)

Downstream == NotionOps \cup {"create_calendar_event"}

\* C2 as stated: whenever the classification step fails, by an unavailable
\* classifier or by an erroring call, nothing downstream runs and a finished
\* request carries an error tagged with the failing step.
C2_Original ==
    (ClassifierUnavailable \/ ClassifierCallErrored) =>
        /\ ~CalledAny(Downstream)
        /\ pc \in {"analyze", "done"}
        /\ pc = "done" /\ analysis # EmptyDict =>
               response.kind = "error" /\ response.step = "ai_analysis"

\* C2, amended: an unavailable classifier ends the request with an error tagged
\* "ai_analysis" and no downstream call; an erroring classifier call instead
\* yields the fallback classification (category "other", title "AI Analysis
\* Failed"), is never reported as a step-tagged error, and the request goes on
\* down the document-store branch without any calendar create.
C2_ClassifierFailure ==
    /\ ClassifierUnavailable =>
          /\ calls = <<>>
          /\ result = EmptyDict
          /\ pc \in {"analyze", "done"}
          /\ pc = "done" /\ analysis # EmptyDict =>
                response = [kind |-> "error", status_code |-> 500,
                            step |-> "ai_analysis"]
    /\ ClassifierCallErrored =>
          /\ analysis = [success |-> TRUE, category |-> "other",
                         title |-> "AI Analysis Failed"]
          /\ ~Called("create_calendar_event")
          /\ response.kind = "error" => response.step # "ai_analysis"
          /\ pc # "analyze"

\* a request refused at the classification step
C2_Witness ==
    /\ pc = "done"
    /\ ClassifierUnavailable
    /\ analysis # EmptyDict
    /\ response.kind = "error"
    /\ response.step = "ai_analysis"

\* ------------------------------------------------ C3
\* C3: whatever the external calls made after classification do, no exception
\* leaves process_capture_result: a run never ends in the raised state.
C3_NoEscape == pc # "raised"

\* ------------------------------------------------ C4
NoKeyError == Error("Notion not connected", "")

NoDatabasesError == Error("No Notion databases found", "")

\* C4: on the non-event branch, without document-store credentials no
\* document-store call at all is made and the result reports notion_created =
\* false with the connectivity error; with credentials but an empty destination
\* list, nothing after the listing is invoked and the result reports
\* notion_created = false with the no-destinations error, which differs from
\* the connectivity error.
C4_ShortCircuits ==
    (Entered /\ Get(analysis, "category", "other") # "event") =>
        /\ ~Truthy(notion_api_key) =>
              /\ ~CalledAny(NotionOps)
              /\ Has(result, "notion_created", FALSE)
              /\ Has(result, "notion_error", NoKeyError)
        /\ (Truthy(notion_api_key) /\ Called("fetch_databases") /\ Len(databases) = 0) =>
              /\ ~CalledAny(NotionOps \ {"fetch_databases"})
              /\ Has(result, "notion_created", FALSE)
              /\ Has(result, "notion_error", NoDatabasesError)
              /\ NoDatabasesError # NoKeyError

\* a run with credentials whose listing came back empty
C4_Witness ==
    /\ pc = "done"
    /\ Truthy(notion_api_key)
    /\ Count("fetch_databases") = 1
    /\ Len(databases) = 0
    /\ Has(result, "notion_error", NoDatabasesError)

\* ------------------------------------------------ C5
SelectionHasFailed == db_selection # Null /\ ~db_selection.success

RecordSteps ==
    {"fetch_database_properties", "map_properties_dynamically",
     "identify_researchable_properties", "enrich_properties", "create_page"}

\* C5: once the Selector has returned a failed outcome the run is at the log
\* write or past it, none of schema fetch, Mapper, Enrichment and record create
\* is ever invoked, and the result holds notion_created = false, the "no
\* suitable database" error carrying the Selector's reason, and
\* summary.database_selection_failed.
C5_SelectionFailure ==
    SelectionHasFailed =>
        /\ ~CalledAny(RecordSteps)
        /\ pc \in {"log", "status", "done", "raised"}
        /\ pc = "log" => calls[Len(calls)].op \in {"select_best_database", "reason"}
        /\ Has(result, "notion_created", FALSE)
        /\ Has(result, "notion_error",
               [msg |-> "No suitable database found", detail |-> db_selection.reason])
        /\ Has(summary, "database_selection_failed", TRUE)

\* a finished run whose selection failed on a parsed reply and was still logged
C5_Witness ==
    /\ pc = "done"
    /\ SelectionHasFailed
    /\ db_selection.reason = "Fits the content"
    /\ Called("write_log_entry")

\* ------------------------------------------------ C6
\* the databases of the pool whose title the name heuristic takes for a log
LogLikePool == {db \in DbPool : IsLogTitle(db.title)}

LogLike == \E i \in 1..Len(databases) : databases[i] \in LogLikePool

\* C6: no run attempts more than one audit write and none comes before a record
\* create of the same run; a run that is past its logging point has attempted
\* exactly one if a log-like destination is among the listed candidates and
\* none if there is no such candidate.
C6_OneAuditWrite ==
    /\ Count("write_log_entry") <= 1
    /\ \A i, j \in 1..Len(calls) :
          (calls[i].op = "write_log_entry" /\ calls[j].op = "create_page") => j < i
    /\ ~LogLike => Count("write_log_entry") = 0
    /\ (pc \in {"status", "done", "raised"} /\ LogLike) => Count("write_log_entry") = 1

\* a run whose record create failed and whose audit entry was still attempted
C6_Witness ==
    /\ pc = "done"
    /\ LogLike
    /\ \E j \in 1..Len(calls) : calls[j].op = "create_page" /\ ~calls[j].ok
    /\ Count("write_log_entry") = 1

\* ------------------------------------------------ C7
\* C7: the audit-write step never changes what the caller gets: whichever of
\* its schema fetch and its create call fail, the step leaves result, summary
\* and the pending response as they were and hands on to the status step, so it
\* never raises and runs differing only in the audit outcome return the same
\* fields.
C7_AuditSwallowed ==
    [][pc = "log" => /\ result' = result
                     /\ summary' = summary
                     /\ response' = response
                     /\ pc' = "status"]_vars

\* a returned run whose record was created and whose audit write failed
C7_Witness ==
    /\ pc = "done"
    /\ response.kind = "result"
    /\ Has(result, "notion_created", TRUE)
    /\ \E i \in 1..Len(calls) : calls[i].op = "write_log_entry" /\ ~calls[i].ok

\* ------------------------------------------------ C8
\* C8: within one request the calendar create, the destination listing, the
\* schema fetch of the selected destination and the record create on it, and
\* each of the four reasoning calls (Selector, Mapper, identify, enrich), occur
\* at most once, failed or not.
C8_NoRetries ==
    /\ \A op \in {"create_calendar_event", "fetch_databases",
                  "fetch_database_properties", "create_page"} : Count(op) <= 1
    /\ \A component \in {"select_best_database", "map_properties_dynamically",
                         "identify_researchable_properties", "enrich_properties"} :
          Count(component) <= 1 /\ CountReason(component) <= 1
    /\ \A i \in 1..Len(calls) :
          calls[i].op \in {"fetch_database_properties", "create_page"} =>
              calls[i].db = db_selection.database.id

\* a finished run in which the schema fetch and the record create both failed
C8_Witness ==
    /\ pc = "done"
    /\ \E i \in 1..Len(calls) : calls[i].op = "fetch_database_properties" /\ ~calls[i].ok
    /\ \E i \in 1..Len(calls) : calls[i].op = "create_page" /\ ~calls[i].ok
    /\ CountReason("select_best_database") = 1

\* ------------------------------------------------ C9
\* C9: a returned result carries category, summary and both connectivity
\* statuses, and exactly one success flag: calendar_event_created for an
\* event, notion_created otherwise. The flag is true exactly when the matching
\* info record is present and the matching error is not, and false exactly
\* when the error is present and the info record is not.
C9_ResultShape ==
    (pc = "done" /\ response.kind = "result") =>
        LET event == result["category"] = "event"
            flag == IF event THEN "calendar_event_created" ELSE "notion_created"
            other == IF event THEN "notion_created" ELSE "calendar_event_created"
            info == IF event THEN "event_info" ELSE "notion_info"
            err == IF event THEN "calendar_error" ELSE "notion_error"
        IN  /\ {"category", "summary", "google_status", "notion_status"}
                  \subseteq DOMAIN result
            /\ flag \in DOMAIN result
            /\ other \notin DOMAIN result
            /\ result[flag] \in BOOLEAN
            /\ result[flag] <=> (info \in DOMAIN result /\ err \notin DOMAIN result)
            /\ ~result[flag] <=> (err \in DOMAIN result /\ info \notin DOMAIN result)

\* a returned result of a created record for a category of its own
C9_Witness ==
    /\ pc = "done"
    /\ response.kind = "result"
    /\ Has(result, "category", "task")
    /\ Has(result, "notion_created", TRUE)

\* ------------------------------------------------ C10
\* the Selector's reply is a parsed object with a numeric confidence and an
\* integer or null index
ReplyParses(reply) ==
    /\ reply.kind = "json"
    /\ Get(reply.body, "confidence", N(0)).t = "num"
    /\ Get(reply.body, "selected_index", Null).t \in {"null", "num"}

\* C10: with the reasoning collaborator available, candidates to choose from
\* and a reply that parses, select_best_database succeeds if and only if the
\* match flag is true, the index lies in 0..len(candidates)-1 and confidence is
\* at least 0.5; on success it returns candidates[index], on failure no
\* destination, and either way the reply's confidence and reason.
C10_SelectorRule ==
    (/\ fn_out # Null
     /\ fn_in.fn = "select_best_database"
     /\ fn_in.client_ok
     /\ Len(fn_in.databases) > 0
     /\ ReplyParses(fn_in.reply)) =>
        LET body == fn_in.reply.body
            matched == Get(body, "found_match", FALSE)
            index == Get(body, "selected_index", Null)
            confidence == Get(body, "confidence", N(0)).n
            in_range == index.t = "num" /\ index.n \in 0..(Len(fn_in.databases) - 1)
        IN  /\ fn_out.success <=> (matched /\ in_range /\ confidence >= 50)
            /\ fn_out.success => fn_out.database = fn_in.databases[index.n + 1]
            /\ ~fn_out.success => fn_out.database = Null
            /\ fn_out.confidence = confidence
            /\ fn_out.reason = Get(body, "reason", "No reason provided")

\* the threshold case: confidence exactly 0.5, a match and an index in range
C10_Witness ==
    /\ fn_out # Null
    /\ fn_in.client_ok
    /\ ReplyParses(fn_in.reply)
    /\ Get(fn_in.reply.body, "confidence", N(0)).n = 50
    /\ fn_out.success
    /\ Len(fn_in.databases) = 2
    /\ fn_out.database = fn_in.databases[2]

\* ------------------------------------------------ C11
\* C11: with zero candidates select_best_database fails with confidence 0.0
\* and makes no reasoning call, with or without a reasoning collaborator; with
\* at least one candidate and no collaborator it succeeds with the first
\* candidate in list order and confidence exactly 0.3, again without a
\* reasoning call.
C11_SelectorFallbacks ==
    (fn_out # Null /\ fn_in.fn = "select_best_database") =>
        /\ Len(fn_in.databases) = 0 =>
              /\ ~fn_out.success
              /\ fn_out.database = Null
              /\ fn_out.confidence = 0
              /\ calls = <<>>
        /\ (Len(fn_in.databases) > 0 /\ ~fn_in.client_ok) =>
              /\ fn_out.success
              /\ fn_out.database = fn_in.databases[1]
              /\ fn_out.confidence = 30
              /\ calls = <<>>

\* two candidates, no collaborator: the first one is returned
C11_Witness ==
    /\ fn_out # Null
    /\ fn_in.fn = "select_best_database"
    /\ ~fn_in.client_ok
    /\ Len(fn_in.databases) = 2
    /\ fn_out.success
    /\ fn_out.database = fn_in.databases[1]

\* ------------------------------------------------ map_properties_dynamically alone
\* the schemas a fetch may hand to the Mapper: each database's, or {} on failure
MapperSchemas == {DbSchema(db.id) : db \in DbPool} \cup {<<>>}

\* replies that name an auto-computed field or list a filled field as unmapped
MapperExtraReplies ==
    { Json([mappings |-> m, unmapped_properties |-> u]) :
        m \in { <<Mapping("Created", S(Dune))>>, <<Mapping("Name", S(Dune))>> },
        u \in { <<"Name">>, <<"Name", "Year">> } }

\* the Mapper is run twice on the same arguments, at two capture times
MapperInit ==
    /\ openai_api_key \in BOOLEAN
    /\ client = FALSE
    /\ Blank
    /\ fn_in \in [fn : {"map_properties_dynamically"},
                  schema : MapperSchemas,
                  reply : MapReplies \cup MapperExtraReplies,
                  times : {<<1, 1>>, <<1, 2>>}]
    /\ fn_out = Null
    /\ requests = Null
    /\ oauth = Null

MapperCall(k) ==
    IF get_openai_client
    THEN Append(calls, [op |-> "reason", db |-> "map_properties_dynamically",
                        ok |-> fn_in.reply.kind # "transport",
                        prompt |-> MapperPrompt(fn_in.times[k], fn_in.schema)])
    ELSE calls

MapperApply ==
    /\ fn_in # Null
    /\ fn_in.fn = "map_properties_dynamically"
    /\ fn_out = Null
    /\ fn_out' = [first |-> map_properties_dynamically(
                                get_openai_client, fn_in.schema, fn_in.reply)]
    /\ client' = StoredClient
    /\ calls' = MapperCall(1)
    /\ UNCHANGED <<oauth, requests, fn_in, openai_api_key, pc, entry, analysis, notion_api_key,
                   google_tokens, databases, db_selection, log_db_id, properties,
                   mapped_properties, researchable, enriched_data, result, summary,
                   response>>

MapperAgain ==
    /\ fn_in # Null
    /\ fn_in.fn = "map_properties_dynamically"
    /\ fn_out # Null
    /\ "second" \notin DOMAIN fn_out
    /\ fn_out' = [first |-> fn_out.first,
                  second |-> map_properties_dynamically(
                                 get_openai_client, fn_in.schema, fn_in.reply)]
    /\ client' = StoredClient
    /\ calls' = MapperCall(2)
    /\ UNCHANGED <<oauth, requests, fn_in, openai_api_key, pc, entry, analysis, notion_api_key,
                   google_tokens, databases, db_selection, log_db_id, properties,
                   mapped_properties, researchable, enriched_data, result, summary,
                   response>>

MapperNext == MapperApply \/ MapperAgain

MapperSpec == MapperInit /\ [][MapperNext]_vars

\* the Mapper has returned for the arguments in hand
Mapped == fn_out # Null /\ fn_in.fn = "map_properties_dynamically"

\* the field an entry of filled_from_user or left_empty names
EntryField(e) == IF "property" \in DOMAIN e THEN e.property ELSE e.str

Filled(outcome) ==
    {outcome.filled_from_user[i].property : i \in 1..Len(outcome.filled_from_user)}

LeftEmpty(outcome) ==
    {EntryField(outcome.left_empty[i]) : i \in 1..Len(outcome.left_empty)}

AutoFields(schema) ==
    {schema[i].name : i \in {j \in 1..Len(schema) : schema[j].type \in AutoTypes}}

\* in the schema and not auto-computed
Eligible(schema) == FieldNames(schema) \ AutoFields(schema)

\* ------------------------------------------------ C12
\* C12: no field of an auto-computed type is ever in filled_from_user or in
\* left_empty of a MappingOutcome, for any schema and reply, with or without a
\* reasoning collaborator.
C12_NoAutoFields ==
    Mapped =>
        /\ Filled(fn_out.first) \cap AutoFields(fn_in.schema) = {}
        /\ LeftEmpty(fn_out.first) \cap AutoFields(fn_in.schema) = {}

\* ------------------------------------------------ C13
\* C13: in an outcome built from a parsed reply every eligible field that was
\* not filled is in left_empty, and no field is both in filled_from_user and in
\* left_empty.
C13_Partition ==
    (Mapped /\ get_openai_client /\ fn_in.reply.kind = "json") =>
        /\ Eligible(fn_in.schema) \ Filled(fn_out.first) \subseteq LeftEmpty(fn_out.first)
        /\ Filled(fn_out.first) \cap LeftEmpty(fn_out.first) = {}

\* ------------------------------------------------ C14
\* C14: without a usable reply (no collaborator, transport failure, malformed
\* or unparseable response) the outcome has no properties, nothing filled, and
\* left_empty holding exactly the eligible fields of the schema.
C14_FallbackOutcome ==
    (Mapped /\ (~get_openai_client \/ fn_in.reply.kind # "json")) =>
        /\ fn_out.first.properties = EmptyDict
        /\ fn_out.first.filled_from_user = <<>>
        /\ LeftEmpty(fn_out.first) = Eligible(fn_in.schema)

CodecVocabulary ==
    {"title", "rich_text", "number", "select", "multi_select", "status", "date",
     "checkbox", "url", "email", "phone_number"}

CodecTypes == CodecVocabulary \cup {"formula", "created_time", "people", NoneKey}

DatePlus == S(<<"2","0","2","4","-","0","3","-","0","1","T","1","5",":","0","0",":","0","0","+","0","1",":","0","0">>)
DateMinus == S(<<"2","0","2","4","-","0","3","-","0","1","T","1","5",":","0","0",":","0","0","-","0","5",":","0","0">>)
DateZulu == S(<<"2","0","2","4","-","0","3","-","0","1","T","1","5",":","0","0",":","0","0","Z">>)
DateLocal == S(<<"2","0","2","4","-","0","3","-","0","1","T","1","5",":","0","0",":","0","0">>)
DateLocalMillis == S(<<"2","0","2","4","-","0","3","-","0","1","T","1","5",":","0","0",":","0","0",".","1","2","3","4","5","6">>)
DateOnly == S(<<"2","0","2","4","-","0","3","-","0","1">>)
DateOnlyLong == S(<<"2","0","2","4","-","0","3","-","0","1"," ","1","5",":","0","0">>)

\* a string longer than the option limit
LongText == S([i \in 1..(OptionLimit + 1) |-> "x"])

CodecValues ==
    { Null, DatePlus, DateMinus, DateZulu, DateLocal, DateLocalMillis, DateOnly,
      DateOnlyLong, LongText, S(<<"d","o","n","e">>), S(<<" ","D","O","N","E"," ">>),
      S(<<" ","M","a","y","b","e"," ">>), S(<<"4","2">>), N(7), B(TRUE),
      L(<<S(<<"a">>), S(<<"b">>)>>) }

CodecOptions == { <<>>, <<ToDo_, Done_>>, << <<"d","o","n","e">>, Done_ >> }

CodecInit ==
    /\ openai_api_key = FALSE
    /\ client = FALSE
    /\ Blank
    /\ fn_in \in [fn : {"encode"}, prop_type : CodecTypes, value : CodecValues,
                  options : CodecOptions]
    /\ fn_out = Null
    /\ requests = Null
    /\ oauth = Null

\* both codecs applied to the value, then the Mapper's and the enrichment's
\* handling of one field "F" that carries it
CodecApply ==
    /\ fn_in # Null
    /\ fn_in.fn = "encode"
    /\ fn_out = Null
    /\ LET prop_info == Field("F", fn_in.prop_type, fn_in.options)
           blank == [properties |-> EmptyDict, filled_from_user |-> <<>>]
           blank_ai == [properties |-> EmptyDict, filled_by_ai |-> <<>>]
       IN  fn_out' =
             [mapper |-> ConvertToNotionValue(fn_in.prop_type, fn_in.value, prop_info),
              enrich |-> BuildPropertyValue(fn_in.prop_type, fn_in.value, prop_info),
              mapped |-> MapOne(blank, Mapping("F", fn_in.value), <<prop_info>>).properties,
              applied |-> ApplyOne(blank_ai, Pair("F", fn_in.value), <<prop_info>>).properties]
    /\ UNCHANGED <<oauth, requests, fn_in, pipeline_vars>>

CodecSpec == CodecInit /\ [][CodecApply]_vars

Encoded == fn_out # Null /\ fn_in.fn = "encode"

\* ------------------------------------------------ C16
\* the string ends in an explicit offset, +hh:mm or -hh:mm
EndsWithOffset(str) ==
    /\ Len(str) >= 6
    /\ str[Len(str) - 5] \in {"+", "-"}
    /\ str[Len(str) - 2] = ":"

\* C16: for a date field both codecs return the input string unchanged when it
\* has a 'T' and ends in an explicit offset, positive or negative, or in 'Z';
\* its first 19 characters when it has a 'T' and neither; its first 10
\* characters when it has no 'T'.
C16_DateCodec ==
    (Encoded /\ fn_in.prop_type = "date" /\ fn_in.value.t = "str") =>
        LET str == fn_in.value.s
            start == IF Contains(str, <<"T">>)
                     THEN IF EndsWithOffset(str) \/ EndsWithChar(str, "Z")
                          THEN str
                          ELSE SubSeq(str, 1, Min(Len(str), 19))
                     ELSE SubSeq(str, 1, Min(Len(str), 10))
        IN  /\ fn_out.mapper = [k |-> "date", start |-> start]
            /\ fn_out.enrich = [k |-> "date", start |-> start]

\* ------------------------------------------------ C17
\* what the claim expects of select and status for the string v
OptionRule(prop_type, v, options) ==
    LET hits == {i \in 1..Len(options) : Lower(options[i]) = Lower(v)}
        first == CHOOSE i \in hits : \A j \in hits : i <= j
    IN  IF hits # {} THEN [k |-> prop_type, name |-> options[first]]
        ELSE IF prop_type = "select"
             THEN [k |-> "select", name |-> SubSeq(v, 1, Min(Len(v), 100))]
        ELSE IF Len(options) > 0 THEN [k |-> "status", name |-> options[1]]
        ELSE Null

\* C17 as stated: the value's string is matched as it is against the allowed
\* options, ignoring case and in list order, and a select without a match
\* emits that raw string cut to 100 characters.
C17_Original ==
    (Encoded /\ fn_in.prop_type \in {"select", "status"} /\ fn_in.value # Null) =>
        /\ fn_out.mapper = OptionRule(fn_in.prop_type, Str(fn_in.value), fn_in.options)
        /\ fn_out.enrich = fn_out.mapper

\* C17, amended: the value's string is first stripped of surrounding
\* whitespace; the stripped string is matched ignoring case against the allowed
\* options in list order and a match emits the option in its own casing; without
\* a match a select emits the stripped string cut to 100 characters, a status
\* the first allowed option, or null when there are no options.
C17_OptionCodec ==
    (Encoded /\ fn_in.prop_type \in {"select", "status"} /\ fn_in.value # Null) =>
        /\ fn_out.mapper =
              OptionRule(fn_in.prop_type, Strip(Str(fn_in.value)), fn_in.options)
        /\ fn_out.enrich = fn_out.mapper

\* a padded upper-case value matched to the first option that equals it
\* ignoring case
C17_Witness ==
    /\ Encoded
    /\ fn_in.prop_type = "status"
    /\ fn_in.value = S(<<" ","D","O","N","E"," ">>)
    /\ fn_in.options = <<ToDo_, Done_>>
    /\ fn_out.mapper = [k |-> "status", name |-> Done_]

\* ------------------------------------------------ C18
\* C18: both codecs return null for a null value whatever the type and for a
\* type outside the vocabulary whatever the value, and a field whose encoding
\* is null is not among the properties the Mapper or the enrichment hands on.
C18_NullEncoding ==
    Encoded =>
        /\ (fn_in.value = Null \/ fn_in.prop_type \notin CodecVocabulary) =>
              fn_out.mapper = Null /\ fn_out.enrich = Null
        /\ fn_out.mapper = Null => "F" \notin DOMAIN fn_out.mapped
        /\ fn_out.enrich = Null => "F" \notin DOMAIN fn_out.applied
        /\ fn_out.mapper # Null => "F" \in DOMAIN fn_out.mapped

\* a value offered for a field of a type outside the vocabulary
C18_Witness ==
    /\ Encoded
    /\ fn_in.prop_type = "people"
    /\ fn_in.value = S(<<"4","2">>)
    /\ fn_out.mapper = Null
    /\ fn_out.applied = EmptyDict

\* ------------------------------------------------ C20
\* the request carried no usable token object: nothing, an empty string, text
\* that is not JSON, an empty object, or JSON that is not an object
CredentialsAbsent == ~Truthy(google_tokens) \/ google_tokens = "nonobject"

\* the orchestrator is past its category branch for the request in hand
BranchDone == Entered /\ pc \in {"status", "done", "raised"}

\* C20: once the branch of an event capture without calendar credentials is
\* over, no calendar create call was made, and the result reports category
\* "event", the calendar as destination, calendar_event_created = false, the
\* "not connected" error and no event_info.
C20_AbsentCredentials ==
    (BranchDone /\ Has(analysis, "category", "event") /\ CredentialsAbsent) =>
        /\ ~Called("create_calendar_event")
        /\ Has(result, "category", "event")
        /\ Has(summary, "destination", "Google Calendar")
        /\ Has(result, "calendar_event_created", FALSE)
        /\ Has(result, "calendar_error", Error("Google Calendar not connected", ""))
        /\ "event_info" \notin DOMAIN result

\* ------------------------------------------------ two requests in progress
\* what one call of process_text_endpoint / process_capture_result holds: its
\* arguments and its local variables
Frame ==
    [pc |-> pc, entry |-> entry, analysis |-> analysis,
     notion_api_key |-> notion_api_key, google_tokens |-> google_tokens,
     databases |-> databases, db_selection |-> db_selection, log_db_id |-> log_db_id,
     properties |-> properties, mapped_properties |-> mapped_properties,
     researchable |-> researchable, enriched_data |-> enriched_data,
     result |-> result, summary |-> summary, calls |-> calls, response |-> response]

\* variant: the destination list is kept in one place for all requests
SharedDatabases(frame, current) == current

\* services/capture.py line 115: databases is a local of the call
OwnDatabases(frame, current) == frame.databases

\* the server stops running one request and runs the other; the module global
\* _client and the configured key belong to the process, not to a request
Switch ==
    /\ requests # Null
    /\ requests' = Frame
    /\ pc' = requests.pc
    /\ entry' = requests.entry
    /\ analysis' = requests.analysis
    /\ notion_api_key' = requests.notion_api_key
    /\ google_tokens' = requests.google_tokens
    /\ databases' = OwnDatabases(requests, databases)
    /\ db_selection' = requests.db_selection
    /\ log_db_id' = requests.log_db_id
    /\ properties' = requests.properties
    /\ mapped_properties' = requests.mapped_properties
    /\ researchable' = requests.researchable
    /\ enriched_data' = requests.enriched_data
    /\ result' = requests.result
    /\ summary' = requests.summary
    /\ calls' = requests.calls
    /\ response' = requests.response
    /\ UNCHANGED <<oauth, openai_api_key, client, fn_in, fn_out>>

\* the requests and replies the two-request runs are drawn from: with or
\* without each credential, no destination or a content database and an audit
\* log, replies that parse, and collaborator calls that succeed
IsolationInputs ==
    /\ notion_api_key \in {NoneKey, "secret"}
    /\ google_tokens \in {NoneKey, "tokens_ok"}
    /\ databases \in {<<>>, <<Movies, Activity>>}
    /\ Get(analysis, "title", "Dentist") = "Dentist"
    /\ db_selection # Null =>
          /\ db_selection.reason \in {"Fits the content", "No OpenAI client"}
          /\ db_selection.confidence \in {0, 90}
    /\ Get(summary, "mapping_reasoning", "") = ""
    /\ Len(Get(summary, "filled_from_user", <<>>)) <= 1 \/ Has(summary, "database", NoneKey)
    /\ enriched_data = <<>>
    /\ Len(Get(summary, "left_empty", <<>>)) <= 1
    /\ \A i \in 1..Len(calls) : calls[i].ok \/ calls[i].op = "select_best_database"
    /\ "google_status" \in DOMAIN result =>
          /\ result["google_status"].connected = Truthy(google_tokens)
          /\ result["notion_status"].connected = Truthy(notion_api_key)

IsolationInit ==
    /\ openai_api_key \in BOOLEAN
    /\ client = FALSE
    /\ Blank
    /\ fn_in = Null
    /\ fn_out = Null
    /\ requests = Frame
    /\ oauth = Null

IsolationNext ==
    \/ Next /\ IsolationInputs'
    \/ Switch /\ IsolationInputs'

IsolationSpec == IsolationInit /\ [][IsolationNext]_vars

\* ------------------------------------------------ C19
\* the calls that name a destination
DestinationOps == {"fetch_database_properties", "create_page", "write_log_entry"}

\* one step of a run in which two requests are in progress
IsolationStep ==
    \* the reasoning client a request is handed follows from the configured
    \* key alone, whatever the other request did before
    /\ (client' \/ openai_api_key') = openai_api_key'
    \* the running request leaves the other request's frame as it is, and a
    \* request that is resumed finds its own frame as it left it
    /\ \/ requests' = requests
       \/ requests' = Frame /\ Frame' = requests
    \* every call that names a destination names one of the request's own list
    /\ \A i \in 1..Len(calls') :
          calls'[i].op \in DestinationOps =>
              \E j \in 1..Len(databases') : databases'[j].id = calls'[i].db

\* C19: for any interleaving of two capture requests, no step of one request
\* reads or writes the credentials, destination list, schema, mapping, result or
\* call log of the other; the only state the two share, the lazily created
\* reasoning client, is determined by the process configuration, so nothing
\* written while serving one request changes what another request gets.
C19_Isolation == [][IsolationStep]_vars

\* a request with calendar credentials has finished with its event created
\* while a request with none waits at its audit write, the shared client set
C19_Witness ==
    /\ requests # Null
    /\ pc = "done"
    /\ google_tokens = "tokens_ok"
    /\ Called("create_calendar_event")
    /\ requests.pc = "log"
    /\ requests.google_tokens = NoneKey
    /\ requests.notion_api_key = "secret"
    /\ client

\* ------------------------------------------------ C21
\* the texts select_best_database gives as reason when its call has failed
SelectorErrorTexts ==
    {"error: transport", "error: json", "error: float", "error: compare", "Parse failed"}

IllTypedConfidence(reply) ==
    reply.kind = "json" /\ Get(reply.body, "confidence", N(0)).t # "num"

IllTypedIndex(reply) ==
    reply.kind = "json" /\ Get(reply.body, "selected_index", Null).t \notin {"null", "num"}

SelectorReasoned ==
    /\ fn_out # Null
    /\ fn_in.fn = "select_best_database"
    /\ fn_in.client_ok
    /\ Len(fn_in.databases) > 0

FailureOutcome ==
    /\ ~fn_out.success
    /\ fn_out.database = Null
    /\ fn_out.confidence = 0
    /\ fn_out.reason \in SelectorErrorTexts

Proposed ==
    IF get_openai_client /\ fn_in.reply.kind = "json"
    THEN Get(fn_in.reply.body, "mappings", <<>>)
    ELSE <<>>

\* C22: in every MappingOutcome the keys of properties are the fields named in
\* filled_from_user; each is a field of the schema for which a non-null value
\* was proposed whose encoding for the field's type and options is non-null,
\* and properties holds that encoding; filled_from_user has exactly one entry
\* per key of properties.
C22_FilledMatchesProperties ==
    Mapped =>
        LET outcome == fn_out.first
            keys == DOMAIN outcome.properties
        IN  /\ keys = Filled(outcome)
            /\ \A f \in keys :
                  /\ f \in FieldNames(fn_in.schema)
                  /\ \E i \in 1..Len(Proposed) :
                        /\ Proposed[i].property = f
                        /\ Proposed[i].value # Null
                        /\ outcome.properties[f] =
                              EncodeValue(FieldOf(fn_in.schema, f).type, Proposed[i].value,
                                          FieldOf(fn_in.schema, f))
                        /\ outcome.properties[f] # Null
            /\ Len(outcome.filled_from_user) = Cardinality(keys)

\* ------------------------------------------------ C23
\* this step adds a call of op to the request's log
Invoked(op) == Cardinality({i \in 1..Len(calls') : calls'[i].op = op}) > Count(op)

\* this step writes enrichment values into the summary
Applied ==
    /\ Len(Get(summary', "filled_by_ai", <<>>)) > 0
    /\ Get(summary', "filled_by_ai", <<>>) # Get(summary, "filled_by_ai", <<>>)

GatedStep ==
    /\ Invoked("identify_researchable_properties") =>
          /\ Called("map_properties_dynamically")
          /\ Len(Get(summary, "left_empty", <<>>)) > 0
    /\ Invoked("enrich_properties") =>
          /\ Called("identify_researchable_properties")
          /\ Len(researchable) > 0
    /\ Applied =>
          /\ Invoked("enrich_properties")
          /\ Len(enriched_data') > 0
    /\ mapped_properties' # mapped_properties =>
          \/ Invoked("map_properties_dynamically")
          \/ Invoked("enrich_properties") /\ Len(enriched_data') > 0
          \/ pc' = "idle"
    /\ Invoked("create_page") =>
          /\ Called("map_properties_dynamically")
          /\ Called("identify_researchable_properties")
                \/ Len(Get(summary, "left_empty", <<>>)) = 0
          /\ Called("enrich_properties") \/ Len(researchable) = 0
          /\ ~Invoked("identify_researchable_properties")
          /\ ~Invoked("enrich_properties")

\* C23: identify is invoked only after the Mapper has returned and only with
\* a non-empty left_empty; enrich only after identify has returned a non-empty
\* researchable list; enrichment values are applied only when enrich returned
\* at least one non-null value; and the record create is attempted only after
\* every one of these steps that runs has finished.
C23_GatedEnrichment == [][GatedStep]_vars

\* a run in which all three steps ran before the create
C23_Witness ==
    /\ Called("create_page")
    /\ Called("enrich_properties")
    /\ Len(Get(summary, "filled_by_ai", <<>>)) > 0
    /\ calls[Len(calls)].op = "create_page"

\* ------------------------------------------------ C24
\* the fields named in a list of summary entries
Names(entries) ==
    {Get(entries[i], "property", NoneKey) : i \in 1..Len(entries)} \ {NoneKey}

\* this step is the one in which enrichment values are applied
Applying == Invoked("enrich_properties") /\ Len(enriched_data') > 0

AppliedStep ==
    Applying =>
        LET ai == Names(Get(summary', "filled_by_ai", <<>>))
            before == Names(Get(summary, "left_empty", <<>>))
            after == Names(Get(summary', "left_empty", <<>>))
        IN  /\ \A i \in 1..Len(enriched_data') :
                  LET f == enriched_data'[i].property
                      value == enriched_data'[i].value
                      info == FieldOf(properties, f)
                      encoding == EncodeValue(info.type, value, info)
                  IN  (f \in FieldNames(properties) /\ value # Null) =>
                          IF encoding # Null
                          THEN /\ Has(mapped_properties', f, encoding)
                               /\ f \in ai
                               /\ f \notin after
                          ELSE /\ f \in DOMAIN mapped_properties' <=>
                                      f \in DOMAIN mapped_properties
                               /\ f \in DOMAIN mapped_properties =>
                                      mapped_properties'[f] = mapped_properties[f]
                               /\ f \notin ai
                               /\ f \in before => f \in after
            /\ ai \cap after = {}

\* C24: when enrichment values are applied, a field whose non-null value
\* encodes for its declared type is in the final properties with that
\* encoding, has an entry in filled_by_ai and is not in left_empty; a field
\* whose value does not encode keeps what it had in properties, has no entry in
\* filled_by_ai and stays in left_empty if it was there; no field is in both
\* filled_by_ai and left_empty.
C24_EnrichmentApplied == [][AppliedStep]_vars

\* one value that encodes and one that does not, applied in the same run
C24_Witness ==
    /\ Len(enriched_data) = 2
    /\ enriched_data[1] = Pair("Year", S(<<"s","o","o","n">>))
    /\ "Year" \in Names(Get(summary, "left_empty", <<>>))
    /\ "Name" \in Names(Get(summary, "filled_by_ai", <<>>))
    /\ "Year" \notin DOMAIN mapped_properties

\* ------------------------------------------------ C25
OnlyEmptyFilledStep ==
    Applying =>
        LET ai == Names(Get(summary', "filled_by_ai", <<>>))
            user == Names(Get(summary, "filled_from_user", <<>>))
            before == Names(Get(summary, "left_empty", <<>>))
        IN  /\ \A f \in user : Has(mapped_properties', f, mapped_properties[f])
            /\ ai \subseteq before
            /\ ai \subseteq {researchable[i] : i \in 1..Len(researchable)}
            /\ ai \cap user = {}

\* C25: when enrichment values are applied, every field the Mapper filled
\* keeps its Mapper-assigned value, every field listed in filled_by_ai was in
\* the Mapper's left_empty and in the researchable list identify returned, and
\* no field is both in filled_from_user and in filled_by_ai.
C25_OnlyEmptyFilled == [][OnlyEmptyFilledStep]_vars

\* ------------------------------------------------ the calendar event's window
\* Times are minutes of local time counted from midnight of day 0. A time
\* string is [kind |-> "none"] (None), [kind |-> "empty"] (""), [kind |->
\* "text"] (text that is no ISO date-time) or an ISO date-time, written
\* [kind |-> "iso", at |-> minutes, zulu |-> it ends in "Z"].
DefaultStartMinute == 540
DefaultDuration == 60

Midnight(now) == now - (now % 1440)

TimeStrings ==
    {[kind |-> k] : k \in {"none", "empty", "text"}} \cup
    {[kind |-> "iso", at |-> t, zulu |-> z] : t \in {480, 1020, 2000}, z \in BOOLEAN}

\* datetime.now() when the event is built
Clocks == {d * 1440 + m : d \in 0..1, m \in {0, 539, 540, 1439}}

\* core/datetime_utils.py parse_datetime_string: None for an absent or
\* unreadable string; a trailing Z is dropped and the rest read as local time
parse_datetime_string(dt_str) ==
    IF dt_str.kind \in {"none", "empty", "text"} THEN Null ELSE N(dt_str.at)

\* google/calendar.py lines 63-83: start and end of the event handed over
event_window(now, start_time, end_time) ==
    LET parsed_start == parse_datetime_string(start_time)
        parsed_end == parse_datetime_string(end_time)
        start_dt == IF parsed_start = Null
                    THEN Midnight(now) + DefaultStartMinute
                    ELSE parsed_start.n
        end_dt == IF parsed_end = Null THEN start_dt + DefaultDuration ELSE parsed_end.n
    IN  [start |-> start_dt, end |-> end_dt]

CalendarInit ==
    /\ openai_api_key = FALSE
    /\ client = FALSE
    /\ Blank
    /\ fn_in \in [fn : {"create_calendar_event"}, now : Clocks,
                  start_time : TimeStrings, end_time : TimeStrings]
    /\ fn_out = Null
    /\ requests = Null
    /\ oauth = Null

CalendarApply ==
    /\ fn_in # Null
    /\ fn_in.fn = "create_calendar_event"
    /\ fn_out = Null
    /\ fn_out' = event_window(fn_in.now, fn_in.start_time, fn_in.end_time)
    /\ UNCHANGED <<oauth, requests, fn_in, pipeline_vars>>

CalendarSpec == CalendarInit /\ [][CalendarApply]_vars

\* ------------------------------------------------ C26
\* the string names no time: it is absent or cannot be read
NoTime(dt_str) == dt_str.kind # "iso"

\* C26: when start_time is absent or cannot be parsed the event runs from
\* 09:00 to 10:00 local time of the current day, whatever end_time is; when
\* start_time parses and end_time is absent or cannot be parsed the event ends
\* exactly one hour after its start.
C26_DefaultWindow ==
    (fn_out # Null /\ fn_in.fn = "create_calendar_event") =>
        /\ NoTime(fn_in.start_time) =>
              /\ fn_out.start = Midnight(fn_in.now) + 9 * 60
              /\ fn_out.end = Midnight(fn_in.now) + 10 * 60
        /\ (~NoTime(fn_in.start_time) /\ NoTime(fn_in.end_time)) =>
              /\ fn_out.start = fn_in.start_time.at
              /\ fn_out.end = fn_in.start_time.at + 60

\* ------------------------------------------------ C27
\* C27: every field in the properties handed to the record create is a field
\* of the schema fetched in the same run, and its value is an encoding of the
\* field's declared type, after mapping and after enrichment and for any reply.
C27_PropertiesInSchema ==
    Called("create_page") =>
        \A f \in DOMAIN mapped_properties :
            /\ f \in FieldNames(properties)
            /\ mapped_properties[f].k = FieldOf(properties, f).type

\* ------------------------------------------------ C28
\* the create calls the request has made, in order
Creates == SelectSeq(calls, LAMBDA c : c.op = "create_page")

\* C28: once the non-event branch is over, a record create was attempted
\* exactly once, on the selected destination, if the Selector succeeded,
\* whatever the schema fetch, the Mapper and the enrichment did in between, and
\* not at all if selection failed or was skipped; at no point of a run is there
\* a second create or a create without a successful selection.
C28_CreateIffSelected ==
    LET selected == db_selection # Null /\ db_selection.success
    IN  /\ Len(Creates) <= 1
        /\ Len(Creates) = 1 =>
              /\ selected
              /\ Creates[1].db = db_selection.database.id
        /\ (BranchDone /\ ~Has(analysis, "category", "event")) =>
              (Len(Creates) = 1 <=> selected)

\* the schema fetch failed, nothing was mapped, and the create was attempted
\* with empty properties
C28_Witness ==
    /\ BranchDone
    /\ db_selection # Null
    /\ db_selection.success
    /\ properties = <<>>
    /\ Called("fetch_database_properties")
    /\ mapped_properties = EmptyDict
    /\ Len(Creates) = 1

\* ------------------------------------------------ C29
\* C29: in a run where a log-like destination is detected among the
\* candidates, the destination the Selector chose is another one, and the
\* record create and the audit write never go to the same destination.
C29_RecordNotInLog ==
    /\ (Truthy(log_db_id) /\ db_selection # Null /\ db_selection.success) =>
          db_selection.database.id # log_db_id
    /\ \A i, j \in 1..Len(calls) :
          (calls[i].op = "create_page" /\ calls[j].op = "write_log_entry") =>
              calls[i].db # calls[j].db

\* ------------------------------------------------ the Google sign-in
\* A state value is a number: 1, 2, ... are the values the authorization-URL
\* step hands out, in order; 0 is a value nobody issued; -1 stands for a
\* callback without a state parameter, and for the state file being absent.
\* oauth.exchanges lists the token exchanges made, each with the state its
\* callback carried and the values issued until then.
CallbackStates == (0 - 1)..MaxIssued

CallbackCodes == {"none", "good", "bad"}

Exchange(state, code, by) ==
    [state |-> state, issued |-> oauth.issued, ok |-> code = "good", by |-> by]

OAuthInit ==
    /\ openai_api_key = FALSE
    /\ client = FALSE
    /\ Blank
    /\ fn_in = Null
    /\ fn_out = Null
    /\ requests = Null
    /\ oauth \in [configured : BOOLEAN, issued : {{}}, stored : {0 - 1},
                  exchanges : {<<>>}]

\* app/services/google/auth.py get_auth_url: a fresh state is put in the URL
\* and returned; the server keeps no copy of it
get_auth_url ==
    IF oauth.configured
    THEN [oauth EXCEPT !.issued = @ \cup {Cardinality(@) + 1}]
    ELSE oauth

GoogleAuthUrlEndpoint ==
    /\ Cardinality(oauth.issued) < MaxIssued
    /\ oauth' = get_auth_url
    /\ UNCHANGED <<pipeline_vars, fn_in, fn_out, requests>>

\* app/services/google/auth.py exchange_code_for_tokens: the state argument
\* is not read
exchange_code_for_tokens(code, state) ==
    IF oauth.configured
    THEN [oauth EXCEPT !.exchanges = Append(@, Exchange(state, code, "app"))]
    ELSE oauth

\* app/api/routes/google.py google_auth_callback
GoogleAuthCallback ==
    /\ Len(oauth.exchanges) < MaxExchanges
    /\ \E code \in CallbackCodes, state \in CallbackStates :
          oauth' = IF code = "none" THEN oauth
                   ELSE exchange_code_for_tokens(code, state)
    /\ UNCHANGED <<pipeline_vars, fn_in, fn_out, requests>>

\* services/external.py get_google_auth_url: the state is also written to
\* oauth_state.pickle
ExternalAuthUrl ==
    /\ Cardinality(oauth.issued) < MaxIssued
    /\ oauth' = IF oauth.configured
                THEN [oauth EXCEPT !.issued = @ \cup {Cardinality(@) + 1},
                                   !.stored = Cardinality(oauth.issued) + 1]
                ELSE oauth
    /\ UNCHANGED <<pipeline_vars, fn_in, fn_out, requests>>

\* services/external.py handle_google_callback: the state is compared only
\* if the state file exists; the file is removed after a successful exchange
handle_google_callback(code, state) ==
    IF oauth.stored # 0 - 1 /\ state # oauth.stored
    THEN oauth
    ELSE IF ~oauth.configured
    THEN oauth
    ELSE [oauth EXCEPT !.exchanges = Append(@, Exchange(state, code, "external")),
                       !.stored = IF code = "good" THEN 0 - 1 ELSE @]

ExternalCallback ==
    /\ Len(oauth.exchanges) < MaxExchanges
    /\ \E code \in CallbackCodes, state \in CallbackStates :
          oauth' = handle_google_callback(code, state)
    /\ UNCHANGED <<pipeline_vars, fn_in, fn_out, requests>>

OAuthNext ==
    \/ GoogleAuthUrlEndpoint
    \/ GoogleAuthCallback
    \/ ExternalAuthUrl
    \/ ExternalCallback

OAuthSpec == OAuthInit /\ [][OAuthNext]_vars

\* ------------------------------------------------ C30
\* C30: every token exchange follows a callback whose state parameter equals
\* a state value the authorization-URL step had issued before; a callback with
\* a missing, unknown or mismatched state leads to no exchange.
C30_StateChecked ==
    oauth # Null =>
        \A i \in 1..Len(oauth.exchanges) :
            oauth.exchanges[i].state \in oauth.exchanges[i].issued

====
